---- MODULE Spec2Model ----
(***************************************************************************)
(* RetailTools: the missing-inventory reconciliation engine                *)
(* (missingInventoryHighlighter.py/missingInventory.py) and the            *)
(* nested-loop / lookup-set comparison of docs/optimization_example.py.    *)
(*                                                                         *)
(* Python values are modelled as strings: None (an absent key, a JSON      *)
(* null) is the string "<None>", which no identifier of the model equals.  *)
(* A Python dict keeps insertion order, so a dict is a sequence of its     *)
(* entries; assigning to a key it already holds replaces the entry in      *)
(* place.                                                                  *)
(***************************************************************************)
EXTENDS Integers, Sequences, FiniteSets, TLC

VARIABLES
    inventory,              \* the fetched inventory records (getInventory's result)
    items,                  \* the fetched catalog items (getItems' result)
    locations,              \* what getAllLocations(account) returns
    pc,                     \* where the running call of getMissingInventory is
    location,               \* the `location` argument of the running call
    inventory_lookup,       \* local: the set of (plu, location) tuples
    builds,                 \* how often the running call has built the lookup
    checks,                 \* how many (item, location) checks the running call has made
    location_name_cache,    \* local: loc_id -> name
    li,                     \* position of the outer `for loc in locations` loop
    missing_per_location,   \* local: the report dict being filled
    missing_inventory,      \* local: the single-location list
    ret_all,                \* the last value returned by an all-locations call
    ret_single,             \* the last value returned by a single-location call
    files,                  \* the CSV files written so far: name -> rows
    missing_old,            \* optimization_example.py: findMissing_OLD's result
    missing_new,            \* optimization_example.py: findMissing_NEW's result
    requests,               \* the HTTP requests the running call has issued
    fetch_pc,               \* where the page handler's fetch of the inputs is
    page,                   \* local of getInventory / getItems: the page to request
    inventory_items,        \* local of getInventory: the pages collected so far
    items_list,             \* local of getItems: the pages collected so far
    responses,              \* the responses the API gave to the page requests
    now,                    \* datetime.now(), in seconds
    token_cache,            \* tokening.py: _token_cache
    token_posts,            \* how many POSTs to /oauth/token were sent
    got,                    \* how the last call of getToken ended
    headers,                \* tokening.py: the module-level `headers`
    sent,                   \* the last API request sent with `headers`
    etag_call,              \* csvToCatalog.py: the running call of getEtag
    structure_call,         \* csvToCatalog.py: the running call of createStructure
    links_call,             \* api_helpers.py: the running call of getAllChannelLinks
    close_call              \* closeOpenAllStores.py: the running call of closeOpenAllStores

engine == <<inventory, items, locations, pc, location, inventory_lookup,
            builds, checks, location_name_cache, li, missing_per_location,
            missing_inventory, ret_all, ret_single, files,
            missing_old, missing_new, requests,
            fetch_pc, page, inventory_items, items_list, responses>>

auth == <<now, token_cache, token_posts, got, headers, sent>>

\* The variables outside the reconciliation engine and its fetch.
tools == <<auth, etag_call, structure_call, links_call, close_call>>

\* What the actions of one tool leave alone.
not_auth == <<engine, etag_call, structure_call, links_call, close_call>>
not_etag == <<engine, auth, structure_call, links_call, close_call>>
not_structure == <<engine, auth, etag_call, links_call, close_call>>
not_links == <<engine, auth, etag_call, structure_call, close_call>>
not_close == <<engine, auth, etag_call, structure_call, links_call>>

vars == <<engine, tools>>

inputs == <<inventory, items, locations>>
example == <<missing_old, missing_new>>
fetch == <<fetch_pc, page, inventory_items, items_list, responses>>

(***************************************************************************)
(* Bounds of the model.                                                    *)
(***************************************************************************)
MaxItems == 2
MaxInventory == 1
MaxLocations == 2
MaxLookupInventory == 2
MaxPages == 3
MaxBuilds == 2
MaxTokenPosts == 2
MaxTime == 3900
MaxRetries == 3
MaxRows == 3
MaxLinkPages == 2
MaxStores == 3

(***************************************************************************)
(* Python values.                                                          *)
(***************************************************************************)
None == "<None>"

\* `if v:` for a value that is a string or None.
Truthy(v) == v # None /\ v # ""

SeqsUpTo(S, n) == UNION {[1..k -> S] : k \in 0..n}

\* d[key] = value on an insertion-ordered dict of records with a `key` field.
DictSet(d, entry) ==
    IF \E i \in 1..Len(d) : d[i].key = entry.key
    THEN [i \in 1..Len(d) |-> IF d[i].key = entry.key THEN entry ELSE d[i]]
    ELSE Append(d, entry)

DictKeys(d) == {d[i].key : i \in 1..Len(d)}

DictGet(d, key) == d[CHOOSE i \in 1..Len(d) : d[i].key = key]

(***************************************************************************)
(* buildInventoryLookup (missingInventory.py:38-49).                       *)
(***************************************************************************)
\* Mutant: only the first location entry of a record is indexed.
LookupAddLocations_FirstOnly(plu, locs, lookup) ==
    IF locs = <<>> THEN lookup
    ELSE LET location_id == Head(locs).location IN
         IF Truthy(location_id) THEN lookup \cup {<<plu, location_id>>}
         ELSE lookup

\* Mutant: the `if location_id:` test is missing.
LookupAddLocations_NoIdTest(plu, locs, lookup) ==
    lookup \cup {<<plu, locs[j].location>> : j \in 1..Len(locs)}

\* Mutant: a record without location entries counts as stocked everywhere.
LookupAddLocations_EmptyIsEverywhere(plu, locs, lookup) ==
    IF locs = <<>> THEN lookup \cup {<<plu, "l1">>, <<plu, "l2">>}
    ELSE lookup \cup {<<plu, locs[j].location>> :
                         j \in {k \in 1..Len(locs) : Truthy(locs[k].location)}}

RECURSIVE LookupAddLocations(_, _, _)
LookupAddLocations(plu, locs, lookup) ==
    IF locs = <<>> THEN lookup
    ELSE LET location_id == Head(locs).location IN
         LookupAddLocations(plu, Tail(locs),
             IF Truthy(location_id) THEN lookup \cup {<<plu, location_id>>}
             ELSE lookup)

\* Mutant: the lookup is keyed by plu; a later record of a plu replaces the
\* pairs of the earlier ones.
RECURSIVE LookupAddRecords_LastWins(_, _)
LookupAddRecords_LastWins(inv, lookup) ==
    IF inv = <<>> THEN lookup
    ELSE LET item == Head(inv)
             plu == item.plu
         IN  LookupAddRecords_LastWins(Tail(inv),
                 IF Truthy(plu)
                 THEN LookupAddLocations(plu, item.locations,
                          {pair \in lookup : pair[1] # plu})
                 ELSE lookup)

RECURSIVE LookupAddRecords(_, _)
LookupAddRecords(inv, lookup) ==
    IF inv = <<>> THEN lookup
    ELSE LET item == Head(inv)
             plu == item.plu
         IN  LookupAddRecords(Tail(inv),
                 IF Truthy(plu) THEN LookupAddLocations(plu, item.locations, lookup)
                 ELSE lookup)

buildInventoryLookup(inv) == LookupAddRecords(inv, {})

\* A record whose "locations" key is present with a JSON null carries the
\* field locations_is_null (its locations field is then not read).
NullLocations(item) == "locations_is_null" \in DOMAIN item

\* lines 44-45: item.get("locations", []) is None when the key is present
\* with a null, and `for loc_obj in None` raises TypeError.
buildInventoryLookupRaises(inv) ==
    \E i \in 1..Len(inv) : Truthy(inv[i].plu) /\ NullLocations(inv[i])

(***************************************************************************)
(* The collaborators of getMissingInventory: the names the API reports     *)
(* (getLocationName, getAccountName) and the CSV export (writeToCSV).      *)
(***************************************************************************)
\* response.json().get("name") of GET /locations/{location}: the API knows
\* the locations l1 and l2 and reports no name for any other id.
getLocationName(loc_id) ==
    CASE loc_id = "l1" -> "One"
      [] loc_id = "l2" -> "Two"
      [] OTHER -> None

getAccountName == "Acct"

CsvHeader == <<"Location", "PLU", "Name">>

\* One file per (account_name, location_name), opened with "w": an earlier
\* file of the same name is replaced.
writeToCSV(fs, missing, loc_id, location_name, account_name) ==
    LET an == IF account_name = None THEN getAccountName ELSE account_name
        ln == IF location_name = None THEN getLocationName(loc_id) ELSE location_name
    IN  DictSet(fs, [key |-> <<an, ln>>,
                     rows |-> <<CsvHeader>> \o
                              [i \in 1..Len(missing) |->
                                  <<ln, missing[i].plu, missing[i].name>>]])

\* The HTTP requests of the collaborators, as they appear in `requests`.
ReqInventory == <<"getInventory">>
ReqItems == <<"getItems">>
ReqAllLocations == <<"getAllLocations">>
ReqAccountName == <<"getAccountName">>
ReqLocationName(loc_id) == <<"getLocationName", loc_id>>

\* lines 84-87: writeToCSV fetches the names it was not given.
WriteRequests(loc_id, location_name, account_name) ==
    (IF account_name = None THEN <<ReqAccountName>> ELSE <<>>) \o
    (IF location_name = None THEN <<ReqLocationName(loc_id)>> ELSE <<>>)

(***************************************************************************)
(* A location of getAllLocations' list is a plain id string or a dict.     *)
(***************************************************************************)
StrLoc(s) == [kind |-> "str", str |-> s, id |-> None, name |-> None]
DictLoc(id, name) == [kind |-> "dict", str |-> None, id |-> id, name |-> name]

\* Mutant: a dict location is identified by its name.
LocId_NameOfDict(loc) == IF loc.kind = "str" THEN loc.str ELSE loc.name

\* loc if isinstance(loc, str) else loc.get("id")   (lines 119 and 129)
LocId(loc) == IF loc.kind = "str" THEN loc.str ELSE loc.id

\* lines 116-124: the name of every location, fetched or taken from the dict.
RECURSIVE BuildNameCache(_, _)
BuildNameCache(locs, cache) ==
    IF locs = <<>> THEN cache
    ELSE LET loc == Head(locs)
             loc_id == LocId(loc)
         IN  BuildNameCache(Tail(locs),
                 DictSet(cache,
                     [key |-> loc_id,
                      name |-> IF loc.kind = "dict" /\ Truthy(loc.name)
                               THEN loc.name
                               ELSE getLocationName(loc_id)]))

\* lines 116-124: the location names fetched while the cache is filled.
RECURSIVE NameRequests(_)
NameRequests(locs) ==
    IF locs = <<>> THEN <<>>
    ELSE LET loc == Head(locs)
         IN  (IF loc.kind = "dict" /\ Truthy(loc.name) THEN <<>>
              ELSE <<ReqLocationName(LocId(loc))>>) \o NameRequests(Tail(locs))

\* location_name_cache.get(loc_id, "Unknown")
CacheGet(cache, loc_id) ==
    IF loc_id \in DictKeys(cache) THEN DictGet(cache, loc_id).name ELSE "Unknown"

(***************************************************************************)
(* The two item scans of getMissingInventory.                              *)
(***************************************************************************)
\* Mutant: membership is tested the wrong way round.
MissingForLocation_Inverted(its, loc_id, lookup, missing) ==
    missing \o SelectSeq(its, LAMBDA item :
                   Truthy(item.plu) /\ <<item.plu, loc_id>> \in lookup)

\* Mutant: the `plu and` test is missing.
MissingForLocation_NoPluTest(its, loc_id, lookup, missing) ==
    missing \o SelectSeq(its, LAMBDA item : <<item.plu, loc_id>> \notin lookup)

\* Mutant: an item whose plu is already in the list is not added again.
RECURSIVE MissingForLocation_DistinctPlus(_, _, _, _)
MissingForLocation_DistinctPlus(its, loc_id, lookup, missing) ==
    IF its = <<>> THEN missing
    ELSE LET item == Head(its)
             plu == item.plu
         IN  MissingForLocation_DistinctPlus(Tail(its), loc_id, lookup,
                 IF /\ Truthy(plu) /\ <<plu, loc_id>> \notin lookup
                    /\ \A i \in 1..Len(missing) : missing[i].plu # plu
                 THEN Append(missing, item)
                 ELSE missing)

\* lines 130-135: the inner loop of the all-locations branch.
RECURSIVE MissingForLocation(_, _, _, _)
MissingForLocation(its, loc_id, lookup, missing) ==
    IF its = <<>> THEN missing
    ELSE LET item == Head(its)
             plu == item.plu
         IN  MissingForLocation(Tail(its), loc_id, lookup,
                 IF Truthy(plu) /\ <<plu, loc_id>> \notin lookup
                 THEN Append(missing, item)
                 ELSE missing)

\* Mutant: the lookup is consulted by plu alone, whatever the location.
MissingForSingle_PluOnly(its, loc, lookup, missing) ==
    missing \o SelectSeq(its, LAMBDA item :
                   Truthy(item.plu) /\ ~(\E pair \in lookup : pair[1] = item.plu))

\* Mutant: a missing item is inserted at the front of the list.
RECURSIVE MissingForSingle_Prepend(_, _, _, _)
MissingForSingle_Prepend(its, loc, lookup, missing) ==
    IF its = <<>> THEN missing
    ELSE LET item == Head(its)
             plu == item.plu
         IN  MissingForSingle_Prepend(Tail(its), loc, lookup,
                 IF Truthy(plu) /\ <<plu, loc>> \notin lookup
                 THEN <<item>> \o missing
                 ELSE missing)

\* Mutant: the `plu and` test is missing in the single-location branch.
MissingForSingle_NoPluTest(its, loc, lookup, missing) ==
    missing \o SelectSeq(its, LAMBDA item : <<item.plu, loc>> \notin lookup)

\* lines 147-152: the loop of the single-location branch.
RECURSIVE MissingForSingle(_, _, _, _)
MissingForSingle(its, loc, lookup, missing) ==
    IF its = <<>> THEN missing
    ELSE LET item == Head(its)
             plu == item.plu
         IN  MissingForSingle(Tail(its), loc, lookup,
                 IF Truthy(plu) /\ <<plu, loc>> \notin lookup
                 THEN Append(missing, item)
                 ELSE missing)

\* lines 139-144: the report entry of a location.
ReportEntry(loc_id, location_name, missing) ==
    [key |-> loc_id,
     location_name |-> location_name,
     location_id |-> loc_id,
     missing_items |-> missing,
     count |-> Len(missing)]

\* Mutant: the `if missing_inventory:` test is missing.
ReportStep_StoreEmpty(report, loc, its, lookup, cache) ==
    LET loc_id == LocId(loc)
        missing == MissingForLocation(its, loc_id, lookup, <<>>)
    IN  DictSet(report, ReportEntry(loc_id, CacheGet(cache, loc_id), missing))

\* Mutant: the report is kept sorted by location id.
ReportStep_SortedKeys(report, loc, its, lookup, cache) ==
    LET loc_id == LocId(loc)
        missing == MissingForLocation(its, loc_id, lookup, <<>>)
        stored == IF missing # <<>>
                  THEN DictSet(report,
                           ReportEntry(loc_id, CacheGet(cache, loc_id), missing))
                  ELSE report
    IN  SelectSeq(stored, LAMBDA e : e.key = "l1") \o
        SelectSeq(stored, LAMBDA e : e.key # "l1")

\* lines 127-144, the report: one iteration of `for loc in locations`.
ReportStep(report, loc, its, lookup, cache) ==
    LET loc_id == LocId(loc)
        missing == MissingForLocation(its, loc_id, lookup, <<>>)
    IN  IF missing # <<>>
        THEN DictSet(report, ReportEntry(loc_id, CacheGet(cache, loc_id), missing))
        ELSE report

\* lines 127-138, the export: the same iteration's call of writeToCSV.
FilesStep(fs, loc, its, lookup, cache) ==
    LET loc_id == LocId(loc)
        missing == MissingForLocation(its, loc_id, lookup, <<>>)
    IN  IF missing # <<>>
        THEN writeToCSV(fs, missing, loc_id, CacheGet(cache, loc_id),
                        getAccountName)
        ELSE fs

\* lines 127-138, the requests of the same iteration's call of writeToCSV.
RequestsStep(reqs, loc, its, lookup, cache) ==
    LET loc_id == LocId(loc)
        missing == MissingForLocation(its, loc_id, lookup, <<>>)
    IN  IF missing # <<>>
        THEN reqs \o WriteRequests(loc_id, CacheGet(cache, loc_id),
                                   getAccountName)
        ELSE reqs

\* lines 126-145: the report of the whole loop.
RECURSIVE ReportLoop(_, _, _, _, _)
ReportLoop(report, locs, its, lookup, cache) ==
    IF locs = <<>> THEN report
    ELSE ReportLoop(ReportStep(report, Head(locs), its, lookup, cache),
                    Tail(locs), its, lookup, cache)

(***************************************************************************)
(* getMissingInventory (missingInventory.py:100-157), called with the      *)
(* already fetched inventory and items, as app.py calls it.                *)
(***************************************************************************)
NoReturn == [done |-> FALSE, location |-> None, value |-> <<>>]

\* Mutant: the inputs are fetched again although the caller supplied them.
FetchIfNone_Always(inventory_is_none, items_is_none) ==
    <<ReqInventory, ReqItems>>

\* lines 102-105: inventory and items are fetched only when not supplied.
FetchIfNone(inventory_is_none, items_is_none) ==
    (IF inventory_is_none THEN <<ReqInventory>> ELSE <<>>) \o
    (IF items_is_none THEN <<ReqItems>> ELSE <<>>)

\* The caller starts a call with the fetched inventory and items: location
\* is None (all locations) or an id.
Call(loc) ==
    /\ pc = "idle"
    /\ location' = loc
    /\ requests' = requests \o FetchIfNone(FALSE, FALSE)
    /\ pc' = "build"
    /\ UNCHANGED <<inputs, inventory_lookup, builds, checks,
                   location_name_cache, li, missing_per_location,
                   missing_inventory, ret_all, ret_single, files, example,
                   fetch,
                   tools>>

\* Mutant: the locations of every record are removed while the lookup is
\* built (item.pop("locations", []) in place of item.get).
BuildLookup_PopsLocations ==
    /\ pc = "build"
    /\ inventory_lookup' = buildInventoryLookup(inventory)
    /\ inventory' = [i \in 1..Len(inventory) |->
                         [inventory[i] EXCEPT !.locations = <<>>]]
    /\ builds' = builds + 1
    /\ pc' = IF location = None THEN "prepare" ELSE "single"
    /\ UNCHANGED <<items, locations, location, checks, location_name_cache,
                   li, missing_per_location, missing_inventory, ret_all,
                   ret_single, files, example, requests, fetch,
                   tools>>

\* line 108: an exception of buildInventoryLookup ends the call.
BuildLookup ==
    /\ pc = "build"
    /\ inventory_lookup' = IF buildInventoryLookupRaises(inventory)
                           THEN inventory_lookup
                           ELSE buildInventoryLookup(inventory)
    /\ builds' = builds + 1
    /\ pc' = IF buildInventoryLookupRaises(inventory) THEN "raised"
             ELSE IF location = None THEN "prepare" ELSE "single"
    /\ UNCHANGED <<inputs, location, checks, location_name_cache, li,
                   missing_per_location, missing_inventory, ret_all,
                   ret_single, files, example, requests,
                   fetch,
                   tools>>

\* lines 110-126
PrepareAll ==
    /\ pc = "prepare"
    /\ location_name_cache' = BuildNameCache(locations, <<>>)
    /\ missing_per_location' = <<>>
    /\ li' = 1
    /\ requests' = requests \o <<ReqAllLocations, ReqAccountName>> \o
                    NameRequests(locations)
    /\ pc' = "loop"
    /\ UNCHANGED <<inputs, location, inventory_lookup, builds, checks,
                   missing_inventory, ret_all, ret_single, files, example,
                   fetch,
                   tools>>

\* Mutant: the lookup is rebuilt in every iteration of the loop.
ScanLocation_Rebuilding ==
    /\ pc = "loop"
    /\ li <= Len(locations)
    /\ inventory_lookup' = buildInventoryLookup(inventory)
    /\ builds' = builds + 1
    /\ missing_per_location' =
           ReportStep(missing_per_location, locations[li], items,
                      inventory_lookup', location_name_cache)
    /\ files' = FilesStep(files, locations[li], items, inventory_lookup',
                          location_name_cache)
    /\ requests' = RequestsStep(requests, locations[li], items,
                                inventory_lookup', location_name_cache)
    /\ checks' = checks + Len(items)
    /\ li' = li + 1
    /\ UNCHANGED <<inputs, pc, location, location_name_cache,
                   missing_inventory, ret_all, ret_single, example, fetch,
                   tools>>

\* lines 127-144: one iteration of `for loc in locations`.
ScanLocation ==
    /\ pc = "loop"
    /\ li <= Len(locations)
    /\ missing_per_location' =
           ReportStep(missing_per_location, locations[li], items,
                      inventory_lookup, location_name_cache)
    /\ files' = FilesStep(files, locations[li], items, inventory_lookup,
                          location_name_cache)
    /\ requests' = RequestsStep(requests, locations[li], items,
                                inventory_lookup, location_name_cache)
    /\ checks' = checks + Len(items)
    /\ li' = li + 1
    /\ UNCHANGED <<inputs, pc, location, inventory_lookup, builds,
                   location_name_cache, missing_inventory, ret_all,
                   ret_single, example, fetch,
                   tools>>

\* line 145
ReturnAll ==
    /\ pc = "loop"
    /\ li > Len(locations)
    /\ ret_all' = [done |-> TRUE, location |-> None,
                   value |-> missing_per_location]
    /\ pc' = "done"
    /\ UNCHANGED <<inputs, location, inventory_lookup, builds, checks,
                   location_name_cache, li, missing_per_location,
                   missing_inventory, ret_single, files, example, requests,
                   fetch,
                   tools>>

\* lines 147-152
ScanSingle ==
    /\ pc = "single"
    /\ missing_inventory' = MissingForSingle(items, location, inventory_lookup, <<>>)
    /\ checks' = checks + Len(items)
    /\ pc' = "export"
    /\ UNCHANGED <<inputs, location, inventory_lookup, builds,
                   location_name_cache, li, missing_per_location, ret_all,
                   ret_single, files, example, requests,
                   fetch,
                   tools>>

\* lines 153-157
ReturnSingle ==
    /\ pc = "export"
    /\ files' = writeToCSV(files, missing_inventory, location,
                           getLocationName(location), getAccountName)
    /\ requests' = requests \o <<ReqLocationName(location), ReqAccountName>> \o
                    WriteRequests(location, getLocationName(location),
                                  getAccountName)
    /\ ret_single' = [done |-> TRUE, location |-> location,
                      value |-> missing_inventory]
    /\ pc' = "done"
    /\ UNCHANGED <<inputs, location, inventory_lookup, builds, checks,
                   location_name_cache, li, missing_per_location,
                   missing_inventory, ret_all, example, fetch,
                   tools>>

\* The caller repeats its call, with the same arguments, on the inputs it
\* still holds: the locals of the finished call are gone, the files it wrote
\* and the value it returned remain.
CallAgain ==
    /\ pc = "done"
    /\ requests' = FetchIfNone(FALSE, FALSE)
    /\ inventory_lookup' = {}
    /\ builds' = 0
    /\ checks' = 0
    /\ location_name_cache' = <<>>
    /\ li' = 0
    /\ missing_per_location' = <<>>
    /\ missing_inventory' = <<>>
    /\ pc' = "build"
    /\ UNCHANGED <<inputs, location, ret_all, ret_single, files, example,
                   fetch,
                   tools>>

(***************************************************************************)
(* The overview the page shows after an all-locations run (app.py:953-962).*)
(***************************************************************************)
\* Mutant: every location that was checked is counted.
total_locations_AllChecked(report) == Len(locations)

\* app.py:953: len(missing_per_location), "Locations with Missing Items".
total_locations(report) == Len(report)

\* app.py:954: sum(loc_data["count"] for loc_data in report.values()),
\* "Total Missing Items".
RECURSIVE total_missing(_)
total_missing(report) ==
    IF report = <<>> THEN 0
    ELSE Head(report).count + total_missing(Tail(report))

(***************************************************************************)
(* docs/optimization_example.py: the nested-loop and the lookup-set        *)
(* implementations, side by side.  Its locations are plain id strings.     *)
(***************************************************************************)
\* lines 44-57
hasInventory_OLD(inv, plu, loc) ==
    \E i \in 1..Len(inv) :
        /\ inv[i].plu = plu
        /\ \E j \in 1..Len(inv[i].locations) :
               inv[i].locations[j].location = loc

\* lines 71-76: the items of one location, nested loops.
RECURSIVE MissingItems_OLD(_, _, _, _)
MissingItems_OLD(inv, its, loc, missing) ==
    IF its = <<>> THEN missing
    ELSE LET item == Head(its)
             plu == item.plu
         IN  MissingItems_OLD(inv, Tail(its), loc,
                 IF ~hasInventory_OLD(inv, plu, loc)
                 THEN Append(missing, item)
                 ELSE missing)

\* lines 67-81
RECURSIVE FindMissing_OLD_Loop(_, _, _, _)
FindMissing_OLD_Loop(inv, its, locs, result) ==
    IF locs = <<>> THEN result
    ELSE LET loc == Head(locs).str
             missing == MissingItems_OLD(inv, its, loc, <<>>)
         IN  FindMissing_OLD_Loop(inv, its, Tail(locs),
                 IF missing # <<>>
                 THEN DictSet(result, [key |-> loc, missing_items |-> missing])
                 ELSE result)

findMissing_OLD(inv, its, locs) == FindMissing_OLD_Loop(inv, its, locs, <<>>)

\* lines 88-106: the same text as missingInventory.py:38-49.
buildInventoryLookup_NEW(inv) == LookupAddRecords(inv, {})

\* lines 123-129
RECURSIVE MissingItems_NEW(_, _, _, _)
MissingItems_NEW(its, loc, lookup, missing) ==
    IF its = <<>> THEN missing
    ELSE LET item == Head(its)
             plu == item.plu
         IN  MissingItems_NEW(Tail(its), loc, lookup,
                 IF Truthy(plu) /\ <<plu, loc>> \notin lookup
                 THEN Append(missing, item)
                 ELSE missing)

\* lines 120-134
RECURSIVE FindMissing_NEW_Loop(_, _, _, _)
FindMissing_NEW_Loop(its, locs, lookup, result) ==
    IF locs = <<>> THEN result
    ELSE LET loc == Head(locs).str
             missing == MissingItems_NEW(its, loc, lookup, <<>>)
         IN  FindMissing_NEW_Loop(its, Tail(locs), lookup,
                 IF missing # <<>>
                 THEN DictSet(result, [key |-> loc, missing_items |-> missing])
                 ELSE result)

findMissing_NEW(inv, its, locs) ==
    FindMissing_NEW_Loop(its, locs, buildInventoryLookup_NEW(inv), <<>>)

\* Python's == on two dicts: the same keys with equal values.
DictEqual(d, e) ==
    /\ DictKeys(d) = DictKeys(e)
    /\ \A k \in DictKeys(d) : DictGet(d, k) = DictGet(e, k)

\* lines 159 and 173 of the demonstration.
RunExample ==
    /\ pc = "idle"
    /\ missing_old' = findMissing_OLD(inventory, items, locations)
    /\ missing_new' = findMissing_NEW(inventory, items, locations)
    /\ pc' = "compared"
    /\ UNCHANGED <<inputs, location, inventory_lookup, builds, checks,
                   location_name_cache, li, missing_per_location,
                   missing_inventory, ret_all, ret_single, files,
                   requests, fetch,
                   tools>>

(***************************************************************************)
(* buildInventoryLookup applied on its own.                                *)
(***************************************************************************)
\* Mutant: the locations of every record are removed while the lookup is
\* built (item.pop("locations", []) in place of item.get).
ApplyBuildLookup_PopsLocations ==
    /\ pc = "idle"
    /\ inventory_lookup' = buildInventoryLookup(inventory)
    /\ inventory' = [i \in 1..Len(inventory) |->
                         [inventory[i] EXCEPT !.locations = <<>>]]
    /\ builds' = builds + 1
    /\ pc' = "built"
    /\ UNCHANGED <<items, locations, location, checks, location_name_cache,
                   li, missing_per_location, missing_inventory, ret_all,
                   ret_single, files, example, requests, fetch,
                   tools>>

ApplyBuildLookup ==
    /\ pc = "idle"
    /\ inventory_lookup' = IF buildInventoryLookupRaises(inventory)
                           THEN inventory_lookup
                           ELSE buildInventoryLookup(inventory)
    /\ builds' = builds + 1
    /\ pc' = IF buildInventoryLookupRaises(inventory) THEN "raised"
             ELSE "built"
    /\ UNCHANGED <<inputs, location, checks, location_name_cache, li,
                   missing_per_location, missing_inventory, ret_all,
                   ret_single, files, example, requests,
                   fetch,
                   tools>>

\* buildInventoryLookup applied once more to the same inventory; the
\* earlier result is replaced by the new one.
ApplyBuildLookupAgain ==
    /\ pc = "built"
    /\ builds < MaxBuilds
    /\ inventory_lookup' = buildInventoryLookup(inventory)
    /\ builds' = builds + 1
    /\ UNCHANGED <<inputs, pc, location, checks, location_name_cache, li,
                   missing_per_location, missing_inventory, ret_all,
                   ret_single, files, example, requests, fetch,
                   tools>>

(***************************************************************************)
(* The page handler's fetch of the inputs (app.py:857-859): getInventory   *)
(* (missingInventory.py:12-26), then getItems (53-69), then the call of    *)
(* getMissingInventory.  A page stands for the records it carries.  The    *)
(* API answers a page request with a JSON body holding an "_items" list    *)
(* of max_results records ("items"), of fewer records ("short"), or of     *)
(* none ("empty"), or no "_items" at all ("no_items", an error body), or   *)
(* the request fails ("fails": requests raises, or the body is not JSON).  *)
(***************************************************************************)
Responses == {"items", "short", "empty", "no_items", "fails"}

\* The API holds at most MaxPages pages of a listing.
CanAnswer(resp) == resp \in {"items", "short"} => page <= MaxPages

\* app.py:857, first line of getInventory.
StartFetch ==
    /\ fetch_pc = "idle"
    /\ fetch_pc' = "inventory"
    /\ page' = 1
    /\ inventory_items' = <<>>
    /\ UNCHANGED <<inputs, pc, location, inventory_lookup, builds, checks,
                   location_name_cache, li, missing_per_location,
                   missing_inventory, ret_all, ret_single, files, example,
                   requests, items_list, responses,
                   tools>>

\* lines 16-26: one iteration of getInventory's loop.  items is
\* inventory.get("_items", []), so a body without "_items" ends the loop
\* as an empty page does, and getItems starts (app.py:858).
InventoryPage(resp) ==
    /\ fetch_pc = "inventory"
    /\ CanAnswer(resp)
    /\ responses' = Append(responses, resp)
    /\ CASE resp = "fails" ->
              /\ fetch_pc' = "failed"
              /\ UNCHANGED <<page, inventory_items>>
         [] resp \in {"items", "short"} ->
              /\ inventory_items' = Append(inventory_items, page)
              /\ page' = page + 1
              /\ UNCHANGED fetch_pc
         [] OTHER ->
              /\ fetch_pc' = "items"
              /\ page' = 1
              /\ UNCHANGED inventory_items
    /\ UNCHANGED <<inputs, pc, location, inventory_lookup, builds, checks,
                   location_name_cache, li, missing_per_location,
                   missing_inventory, ret_all, ret_single, files, example,
                   requests, items_list,
                   tools>>

\* Mutant: a page with fewer than max_results items ends the loop.
ItemsPage_StopsAtShortPage(resp) ==
    /\ fetch_pc = "items"
    /\ CanAnswer(resp)
    /\ responses' = Append(responses, resp)
    /\ CASE resp \in {"fails", "no_items"} ->
              /\ fetch_pc' = "failed"
              /\ UNCHANGED <<page, items_list>>
         [] resp = "items" ->
              /\ items_list' = Append(items_list, page)
              /\ page' = page + 1
              /\ UNCHANGED fetch_pc
         [] resp = "short" ->
              /\ items_list' = Append(items_list, page)
              /\ fetch_pc' = "compare"
              /\ UNCHANGED page
         [] OTHER ->
              /\ fetch_pc' = "compare"
              /\ UNCHANGED <<page, items_list>>
    /\ UNCHANGED <<inputs, pc, location, inventory_lookup, builds, checks,
                   location_name_cache, li, missing_per_location,
                   missing_inventory, ret_all, ret_single, files, example,
                   requests, inventory_items,
                   tools>>

\* lines 56-69: one iteration of getItems' loop.  items is
\* response["_items"], so a body without "_items" raises KeyError; after
\* the empty page getMissingInventory is called (app.py:859).
ItemsPage(resp) ==
    /\ fetch_pc = "items"
    /\ CanAnswer(resp)
    /\ responses' = Append(responses, resp)
    /\ CASE resp \in {"fails", "no_items"} ->
              /\ fetch_pc' = "failed"
              /\ UNCHANGED <<page, items_list>>
         [] resp \in {"items", "short"} ->
              /\ items_list' = Append(items_list, page)
              /\ page' = page + 1
              /\ UNCHANGED fetch_pc
         [] OTHER ->
              /\ fetch_pc' = "compare"
              /\ UNCHANGED <<page, items_list>>
    /\ UNCHANGED <<inputs, pc, location, inventory_lookup, builds, checks,
                   location_name_cache, li, missing_per_location,
                   missing_inventory, ret_all, ret_single, files, example,
                   requests, inventory_items,
                   tools>>

(***************************************************************************)
(* authentication/tokening.py: the token cache, getToken and the           *)
(* module-level `headers`.  Times are seconds; NoTime stands for the None  *)
(* of expires_at.  The i-th token the API issues is TokenNames[i].         *)
(***************************************************************************)
NoTime == -1
RefreshMargin == 300
DefaultExpiresIn == 3600
TickSeconds == 300
TokenNames == <<"t1", "t2", "t3", "t4">>

EmptyCache == [token |-> None, expires_at |-> NoTime]

\* The outcomes of the POST to /oauth/token: the request fails (requests
\* raises or the body is not JSON), the body has no "access_token", or it
\* has one, with a numeric "expires_in", without "expires_in", or with an
\* "expires_in" that is not a number (a JSON string or null).
TokenResponses ==
    {[kind |-> "fails"], [kind |-> "no_access_token"],
     [kind |-> "token", expires_in |-> 300],
     [kind |-> "token", expires_in |-> 900],
     [kind |-> "token_without_expires_in"],
     [kind |-> "token_with_bad_expires_in"]}

\* lines 16-17: a cached token that has not expired.
CacheValid(cache, t) ==
    /\ Truthy(cache.token)
    /\ cache.expires_at # NoTime
    /\ t < cache.expires_at

\* Mutant: the cached token is returned whether or not it has expired.
getToken_IgnoresExpiry(cache, t, creds, resp, token) ==
    IF Truthy(cache.token) /\ cache.expires_at # NoTime
    THEN [result |-> "returned", token |-> cache.token, posted |-> FALSE,
          cache |-> cache]
    ELSE IF ~creds
    THEN [result |-> "raised", token |-> None, posted |-> FALSE,
          cache |-> cache]
    ELSE IF resp.kind \in {"fails", "no_access_token"}
    THEN [result |-> "raised", token |-> None, posted |-> TRUE,
          cache |-> cache]
    ELSE IF resp.kind = "token_with_bad_expires_in"
    THEN [result |-> "raised", token |-> None, posted |-> TRUE,
          cache |-> [cache EXCEPT !.token = token]]
    ELSE LET expires_in == IF resp.kind = "token" THEN resp.expires_in
                           ELSE DefaultExpiresIn
         IN  [result |-> "returned", token |-> token, posted |-> TRUE,
              cache |-> [token |-> token,
                         expires_at |-> t + expires_in - RefreshMargin]]

\* lines 10-55: getToken at time t on the cache `cache`, with the
\* credentials set or not, the API answering resp and issuing `token`.
\* The result tells how the call ended, whether it sent the POST, and the
\* cache it leaves.
getToken(cache, t, creds, resp, token) ==
    IF CacheValid(cache, t)
    THEN [result |-> "returned", token |-> cache.token, posted |-> FALSE,
          cache |-> cache]
    ELSE IF ~creds
    THEN [result |-> "raised", token |-> None, posted |-> FALSE,
          cache |-> cache]
    ELSE IF resp.kind \in {"fails", "no_access_token"}
    THEN [result |-> "raised", token |-> None, posted |-> TRUE,
          cache |-> cache]
    ELSE IF resp.kind = "token_with_bad_expires_in"
    THEN \* line 52 has stored the token when line 53 raises TypeError
         [result |-> "raised", token |-> None, posted |-> TRUE,
          cache |-> [cache EXCEPT !.token = token]]
    ELSE LET expires_in == IF resp.kind = "token" THEN resp.expires_in
                           ELSE DefaultExpiresIn
         IN  [result |-> "returned", token |-> token, posted |-> TRUE,
              cache |-> [token |-> token,
                         expires_at |-> t + expires_in - RefreshMargin]]

\* The record of a call: its outcome, the cache and the time it started
\* with, the credentials and the answer of the API it met.
NoCall == [result |-> "none", token |-> None, posted |-> FALSE,
           before |-> EmptyCache, at |-> 0, creds |-> FALSE,
           response |-> [kind |-> "none"]]
\* The record of a request: the token it carried, when it was sent, and
\* the cache at that time.
NoRequest == [token |-> None, at |-> 0, cache |-> EmptyCache]

InitAuth ==
    /\ now = 0
    /\ token_cache = EmptyCache
    /\ token_posts = 0
    /\ got = NoCall
    /\ headers = None
    /\ sent = NoRequest

\* What a call of getToken does to the cache and to the count of POSTs.
TokenCall(r, creds, resp) ==
    /\ token_cache' = r.cache
    /\ token_posts' = IF r.posted THEN token_posts + 1 ELSE token_posts
    /\ got' = [result |-> r.result, token |-> r.token, posted |-> r.posted,
               before |-> token_cache, at |-> now, creds |-> creds,
               response |-> IF r.posted THEN resp ELSE [kind |-> "none"]]

\* line 65, at import: headers = getHeaders().  An exception of getToken
\* fails the import, which is tried again on the next run.
Import(creds, resp) ==
    /\ headers = None
    /\ token_posts < MaxTokenPosts
    /\ LET r == getToken(token_cache, now, creds, resp,
                         TokenNames[token_posts + 1])
       IN  /\ TokenCall(r, creds, resp)
           /\ headers' = r.token
    /\ UNCHANGED <<not_auth, now, sent>>

\* A call of getToken (through getHeaders) after the import.
CallGetToken(creds, resp) ==
    /\ headers # None
    /\ token_posts < MaxTokenPosts
    /\ LET r == getToken(token_cache, now, creds, resp,
                         TokenNames[token_posts + 1])
       IN  TokenCall(r, creds, resp)
    /\ UNCHANGED <<not_auth, now, headers, sent>>

\* A request sent with headers=headers, as missingInventory.py:18.
SendWithHeaders ==
    /\ headers # None
    /\ sent' = [token |-> headers, at |-> now, cache |-> token_cache]
    /\ UNCHANGED <<not_auth, now, token_cache, token_posts, got, headers>>

\* Time passes.
Tick ==
    /\ now < MaxTime
    /\ now' = now + TickSeconds
    /\ UNCHANGED <<not_auth, token_cache, token_posts, got, headers, sent>>

(***************************************************************************)
(* catImporter/csvToCatalog.py: getEtag (lines 134-177).  A response is    *)
(* the outcome of the GET: "fails" (requests raises something other than   *)
(* an HTTPError, or the body is not JSON), "http_error" (raise_for_status  *)
(* raises), or "ok" with the set of etag keys the body holds; the value    *)
(* under a key is named after the key.                                     *)
(***************************************************************************)
EtagKeys == <<"_etag", "etag", "_ETag">>

EtagResponses ==
    {[status |-> "fails", keys |-> {}], [status |-> "http_error", keys |-> {}]}
    \cup {[status |-> "ok", keys |-> ks] : ks \in SUBSET {"_etag", "etag", "_ETag"}}

EtagValue(key) == "value of " \o key

\* lines 153-158: the first of _etag, etag, _ETag the body holds.
FirstEtagKey(keys) ==
    EtagKeys[CHOOSE i \in 1..3 :
                 /\ EtagKeys[i] \in keys
                 /\ \A j \in 1..(i - 1) : EtagKeys[j] \notin keys]

NoEtagCall ==
    [pc |-> "idle", retry_count |-> 0, attempt |-> 0, responses |-> <<>>,
     sleeps |-> 0, result |-> None]

\* line 143: `for attempt in range(retry_count)`; an empty range falls
\* through to the raise of line 177.
StartGetEtag(retry_count) ==
    /\ etag_call.pc = "idle"
    /\ etag_call' = [NoEtagCall EXCEPT
                         !.pc = IF retry_count > 0 THEN "running" ELSE "raised",
                         !.retry_count = retry_count]
    /\ UNCHANGED not_etag

\* Mutant: the last attempt without an etag returns None.
GetEtagAttempt_ReturnsNone(resp) ==
    /\ etag_call.pc = "running"
    /\ LET c == [etag_call EXCEPT !.responses = Append(@, resp)]
       IN  etag_call' =
               IF resp.status = "fails" THEN [c EXCEPT !.pc = "raised"]
               ELSE IF resp.status = "ok" /\ resp.keys # {}
               THEN [c EXCEPT !.pc = "returned",
                              !.result = EtagValue(FirstEtagKey(resp.keys))]
               ELSE IF c.attempt < c.retry_count - 1
               THEN [c EXCEPT !.sleeps = @ + 1, !.attempt = @ + 1]
               ELSE [c EXCEPT !.pc = "returned"]
    /\ UNCHANGED not_etag

\* lines 144-175: one attempt.
GetEtagAttempt(resp) ==
    /\ etag_call.pc = "running"
    /\ LET c == [etag_call EXCEPT !.responses = Append(@, resp)]
       IN  etag_call' =
               IF resp.status = "fails" THEN [c EXCEPT !.pc = "raised"]
               ELSE IF resp.status = "ok" /\ resp.keys # {}
               THEN [c EXCEPT !.pc = "returned",
                              !.result = EtagValue(FirstEtagKey(resp.keys))]
               ELSE IF c.attempt < c.retry_count - 1
               THEN [c EXCEPT !.sleeps = @ + 1, !.attempt = @ + 1]
               ELSE [c EXCEPT !.pc = "raised"]
    /\ UNCHANGED not_etag

(***************************************************************************)
(* catImporter/csvToCatalog.py: createStructure (lines 15-38).  A row is   *)
(* what csv.DictReader yields: row.get gives the cell, None for a column   *)
(* the line lacks.  categoryStructure is a dict of dicts of lists, each    *)
(* dict an insertion-ordered sequence of [key, value].                     *)
(***************************************************************************)
CsvRows ==
    [category1 : {"", "A", "B"}, category2 : {None, "X", "Y"},
     plu : {"", "p1", "p2"}]

NoStructureCall == [pc |-> "idle", rows |-> <<>>, categoryStructure |-> <<>>]

\* Mutant: the PLU is appended even when the list already holds it.
createStructureRow_AppendsAlways(categoryStructure, row) ==
    IF ~Truthy(row.category1) \/ ~Truthy(row.category2) \/ ~Truthy(row.plu)
    THEN categoryStructure
    ELSE LET cats == IF row.category1 \notin DictKeys(categoryStructure)
                     THEN Append(categoryStructure,
                                 [key |-> row.category1, value |-> <<>>])
                     ELSE categoryStructure
             subs == DictGet(cats, row.category1).value
             subs2 == IF row.category2 \notin DictKeys(subs)
                      THEN Append(subs, [key |-> row.category2, value |-> <<>>])
                      ELSE subs
             plus == DictGet(subs2, row.category2).value
         IN  DictSet(cats,
                     [key |-> row.category1,
                      value |-> DictSet(subs2, [key |-> row.category2,
                                                value |-> Append(plus, row.plu)])])

\* lines 18-36: the body of the loop for one row.
createStructureRow(categoryStructure, row) ==
    IF ~Truthy(row.category1) \/ ~Truthy(row.category2) \/ ~Truthy(row.plu)
    THEN categoryStructure
    ELSE LET cats == IF row.category1 \notin DictKeys(categoryStructure)
                     THEN Append(categoryStructure,
                                 [key |-> row.category1, value |-> <<>>])
                     ELSE categoryStructure
             subs == DictGet(cats, row.category1).value
             subs2 == IF row.category2 \notin DictKeys(subs)
                      THEN Append(subs, [key |-> row.category2, value |-> <<>>])
                      ELSE subs
             plus == DictGet(subs2, row.category2).value
             plus2 == IF \E i \in 1..Len(plus) : plus[i] = row.plu
                      THEN plus
                      ELSE Append(plus, row.plu)
         IN  DictSet(cats,
                     [key |-> row.category1,
                      value |-> DictSet(subs2, [key |-> row.category2,
                                                value |-> plus2])])

\* line 17: the loop takes the next row of `rows`.
CreateStructureRow(row) ==
    /\ structure_call.pc \in {"idle", "running"}
    /\ Len(structure_call.rows) < MaxRows
    /\ structure_call' =
           [pc |-> "running",
            rows |-> Append(structure_call.rows, row),
            categoryStructure |->
                createStructureRow(structure_call.categoryStructure, row)]
    /\ UNCHANGED not_structure

\* line 38: `rows` is exhausted.
ReturnStructure ==
    /\ structure_call.pc \in {"idle", "running"}
    /\ structure_call' = [structure_call EXCEPT !.pc = "returned"]
    /\ UNCHANGED not_structure

(***************************************************************************)
(* utils/api_helpers.py: getAllChannelLinks (lines 124-180).  The account  *)
(* has channel links k1, k2, ... served in pages of one or two; a link     *)
(* has an _id, a name and a channel (None when the field is absent).       *)
(***************************************************************************)
Channels == {"c1", "c2", None}

ChannelLinkIds == <<"k1", "k2", "k3", "k4", "k5", "k6">>

ChannelLinkPages ==
    {[status |-> 500, channels |-> <<>>], [status |-> 200, channels |-> <<>>]}
    \cup {[status |-> 200, channels |-> cs] :
              cs \in [1..1 -> Channels] \cup [1..2 -> Channels]}

\* The links of a page whose first link is the (n+1)-th of the account.
LinksOfPage(resp, n) ==
    [i \in 1..Len(resp.channels) |->
        [_id |-> ChannelLinkIds[n + i],
         name |-> "link " \o ChannelLinkIds[n + i],
         channel |-> resp.channels[i]]]

\* findChannelNameById (lines 101-121): the name, None when the lookup fails.
findChannelNameById(channel_id, failed) ==
    IF channel_id \in failed \/ channel_id = None
    THEN None
    ELSE "channel " \o channel_id

\* lines 155-164: the loop over the links of one page.
RECURSIVE GroupLinks(_, _)
GroupLinks(perChannelDict, links) ==
    IF links = <<>> THEN perChannelDict
    ELSE LET channelLink == Head(links)
             ids == IF channelLink.channel \in DictKeys(perChannelDict)
                    THEN DictGet(perChannelDict, channelLink.channel).value
                    ELSE <<>>
         IN  GroupLinks(DictSet(perChannelDict,
                                [key |-> channelLink.channel,
                                 value |-> Append(ids, channelLink._id)]),
                        Tail(links))

\* lines 168-180: what is returned once the loop has ended.
LinksResult(call, failed) ==
    IF ~call.group_by_channel
    THEN <<>>
    ELSE [i \in 1..Len(call.perChannelDict) |->
             [channel |-> findChannelNameById(call.perChannelDict[i].key, failed),
              channelId |-> call.perChannelDict[i].key,
              channelLinksIds |-> call.perChannelDict[i].value]]

NoLinksCall ==
    [pc |-> "idle", group_by_channel |-> TRUE, page |-> 1, fetched |-> <<>>,
     perChannelDict |-> <<>>, result |-> <<>>]

\* lines 145-146
StartGetAllChannelLinks(group_by_channel) ==
    /\ links_call.pc = "idle"
    /\ links_call' = [NoLinksCall EXCEPT !.pc = "running",
                                         !.group_by_channel = group_by_channel]
    /\ UNCHANGED not_links

\* lines 148-180: one pass of the loop; a status other than 200 or an
\* empty page ends it and the result is built.
ChannelLinksPage(resp, failed) ==
    /\ links_call.pc = "running"
    /\ resp.channels # <<>> => links_call.page <= MaxLinkPages
    /\ links_call' =
           IF resp.status # 200 \/ resp.channels = <<>>
           THEN [links_call EXCEPT !.pc = "returned",
                                   !.result = LinksResult(links_call, failed)]
           ELSE LET links == LinksOfPage(resp, Len(links_call.fetched))
                IN  [links_call EXCEPT
                        !.page = @ + 1,
                        !.fetched = @ \o links,
                        !.perChannelDict =
                            IF links_call.group_by_channel
                            THEN GroupLinks(@, links)
                            ELSE @]
    /\ UNCHANGED not_links

(***************************************************************************)
(* closeAllStores/closeOpenAllStores.py: closeOpenAllStores without a      *)
(* channel (lines 54-64) and closeStore (lines 30-40).  A response to the  *)
(* busy-mode POST is its status, or "not_json" when the body cannot be     *)
(* decoded (response.json() of line 34 raises before the status is read).  *)
(***************************************************************************)
BusyDelay == 999

StoreIds == <<"s1", "s2", "s3", "s4">>

\* getAllLocations(account): the stores of the account in any order.
StoreLists ==
    {l \in SeqsUpTo({StoreIds[i] : i \in 1..MaxStores}, MaxStores) :
        \A i, j \in 1..Len(l) : l[i] = l[j] => i = j}

BusyResponses == {200, 500}

NoCloseCall ==
    [pc |-> "idle", type |-> 0, locations |-> <<>>, posts |-> <<>>,
     result |-> FALSE]

\* lines 55-58: the delay is bound for type 1 and type 0 only.
preparationTimeDelay(type) == IF type = 1 THEN BusyDelay ELSE 0

\* lines 54-64 up to the first closeStore call: an empty enumeration
\* returns False; a type other than 0 and 1 leaves preparationTimeDelay
\* unbound and evaluating the first call's argument raises.
StartCloseOpenAllStores(type, locs) ==
    /\ close_call.pc = "idle"
    /\ close_call' =
           [NoCloseCall EXCEPT
               !.type = type,
               !.locations = locs,
               !.pc = IF locs = <<>> THEN "returned"
                      ELSE IF type \notin {0, 1} THEN "raised"
                      ELSE "running"]
    /\ UNCHANGED not_close

\* Mutant: the loop goes on after a successful closeStore.
CloseStore_TriesEveryStore(status, json) ==
    /\ close_call.pc = "running"
    /\ LET i == Len(close_call.posts) + 1
           c == [close_call EXCEPT
                    !.posts = Append(@,
                        [locationId |-> close_call.locations[i],
                         preparationTimeDelay |-> preparationTimeDelay(close_call.type),
                         status |-> status, json |-> json])]
       IN  close_call' =
               IF ~json THEN [c EXCEPT !.pc = "raised"]
               ELSE IF i < Len(c.locations)
               THEN [c EXCEPT !.result = @ \/ status = 200]
               ELSE [c EXCEPT !.pc = "returned", !.result = @ \/ status = 200]
    /\ UNCHANGED not_close

\* lines 61-64 with closeStore (30-40): the request to the next location.
CloseStore(status, json) ==
    /\ close_call.pc = "running"
    /\ LET i == Len(close_call.posts) + 1
           c == [close_call EXCEPT
                    !.posts = Append(@,
                        [locationId |-> close_call.locations[i],
                         preparationTimeDelay |-> preparationTimeDelay(close_call.type),
                         status |-> status, json |-> json])]
       IN  close_call' =
               IF ~json THEN [c EXCEPT !.pc = "raised"]
               ELSE IF status = 200
               THEN [c EXCEPT !.pc = "returned", !.result = TRUE]
               ELSE IF i < Len(c.locations)
               THEN c
               ELSE [c EXCEPT !.pc = "returned", !.result = FALSE]
    /\ UNCHANGED not_close

(***************************************************************************)
(* The inputs of the model.                                                *)
(***************************************************************************)
Plus == {None, "", "p1", "p2"}
LocIds == {"l1", "l2"}
EntryIds == {None, "", "l1", "l2"}

\* Catalog items carry distinct names, so that two items with the same plu
\* stay distinguishable in a result.
ItemNames == <<"A", "B", "C", "D", "E">>
ItemLists(n) ==
    {[i \in 1..Len(ps) |-> [plu |-> ps[i], name |-> ItemNames[i]]] :
        ps \in SeqsUpTo(Plus, n)}

\* An inventory record lists at most two location entries.
Entry(id) == [location |-> id]
Records(plus, entryLists) ==
    {[plu |-> p, locations |-> [i \in 1..Len(ls) |-> Entry(ls[i])]] :
        p \in plus, ls \in entryLists}

\* The records of a reconciliation run: a plu stocked at no, one or both
\* locations.
StockRecords ==
    Records({"p1", "p2"}, {<<>>, <<"l1">>, <<"l2">>, <<"l1", "l2">>})

\* The records buildInventoryLookup is applied to on its own: every plu and
\* every location id may be absent or empty.
AnyRecords == Records(Plus, SeqsUpTo(EntryIds, 2))

ExampleRecords == Records(Plus, SeqsUpTo(EntryIds, 1))

\* Records of one plu (or of the empty plu), with or without locations.
OnePluRecords ==
    Records({"", "p1"}, {<<>>, <<"l1">>, <<"l2">>, <<"l1", "l2">>})

\* Records as the API may deliver them: the plu absent or empty, the
\* locations absent (read as []), null, or holding an entry without an id.
MalformedRecords ==
    Records({None, "", "p1"}, {<<>>, <<None>>, <<"">>, <<"l1">>}) \cup
    {[plu |-> p, locations |-> <<>>, locations_is_null |-> TRUE] :
        p \in {None, "", "p1"}}

AccountLocations == {StrLoc("l1"), StrLoc("l2"), DictLoc("l1", "Uno")}

InitLocals ==
    /\ pc = "idle"
    /\ location = None
    /\ inventory_lookup = {}
    /\ builds = 0
    /\ checks = 0
    /\ location_name_cache = <<>>
    /\ li = 0
    /\ missing_per_location = <<>>
    /\ missing_inventory = <<>>
    /\ ret_all = NoReturn
    /\ ret_single = NoReturn
    /\ files = <<>>
    /\ missing_old = <<>>
    /\ missing_new = <<>>
    /\ requests = <<>>
    /\ fetch_pc = "idle"
    /\ page = 0
    /\ inventory_items = <<>>
    /\ items_list = <<>>
    /\ responses = <<>>
    /\ InitAuth
    /\ etag_call = NoEtagCall
    /\ structure_call = NoStructureCall
    /\ links_call = NoLinksCall
    /\ close_call = NoCloseCall

(***************************************************************************)
(* Spec: one reconciliation run, in either mode.                           *)
(***************************************************************************)
Init ==
    /\ items \in ItemLists(MaxItems)
    /\ inventory \in SeqsUpTo(StockRecords, MaxInventory)
    /\ locations \in SeqsUpTo(AccountLocations, MaxLocations)
    /\ InitLocals

Next ==
    \/ \E loc \in {None} \cup LocIds : Call(loc)
    \/ BuildLookup
    \/ PrepareAll
    \/ ScanLocation
    \/ ReturnAll
    \/ ScanSingle
    \/ ReturnSingle

Spec == Init /\ [][Next]_vars

(***************************************************************************)
(* SpecRepeat: reconciliation runs repeated on the same inputs.            *)
(***************************************************************************)
NextRepeat == Next \/ CallAgain

SpecRepeat == Init /\ [][NextRepeat]_vars

(***************************************************************************)
(* SpecMalformed: one reconciliation run on records with absent, empty or  *)
(* null fields.                                                            *)
(***************************************************************************)
InitMalformed ==
    /\ items \in ItemLists(MaxItems)
    /\ inventory \in SeqsUpTo(MalformedRecords, MaxInventory)
    /\ locations \in SeqsUpTo({StrLoc("l1")}, MaxLocations)
    /\ InitLocals

SpecMalformed == InitMalformed /\ [][Next]_vars

(***************************************************************************)
(* SpecFetch: the paginated fetch that precedes a reconciliation run.      *)
(***************************************************************************)
InitFetch ==
    /\ items = <<>>
    /\ inventory = <<>>
    /\ locations = <<>>
    /\ InitLocals

NextFetch ==
    \/ StartFetch
    \/ \E resp \in Responses : InventoryPage(resp)
    \/ \E resp \in Responses : ItemsPage(resp)

SpecFetch == InitFetch /\ [][NextFetch]_vars

(***************************************************************************)
(* SpecRecords: one reconciliation run of a single catalog item against    *)
(* several inventory records of one plu.                                   *)
(***************************************************************************)
InitRecords ==
    /\ items \in ItemLists(1)
    /\ inventory \in SeqsUpTo(OnePluRecords, MaxLookupInventory)
    /\ locations \in SeqsUpTo(AccountLocations, MaxLocations)
    /\ InitLocals

SpecRecords == InitRecords /\ [][Next]_vars

(***************************************************************************)
(* SpecExport: one reconciliation run on an account in which two           *)
(* locations carry the same name.                                          *)
(***************************************************************************)
SameNameLocations == {DictLoc("l1", "Uno"), DictLoc("l2", "Uno"), StrLoc("l1")}

InitExport ==
    /\ items \in ItemLists(MaxItems)
    /\ inventory \in SeqsUpTo(StockRecords, MaxInventory)
    /\ locations \in SeqsUpTo(SameNameLocations, MaxLocations)
    /\ InitLocals

SpecExport == InitExport /\ [][Next]_vars

(***************************************************************************)
(* SpecToken: the token cache over time.                                   *)
(***************************************************************************)
NextToken ==
    \/ \E creds \in BOOLEAN, resp \in TokenResponses : Import(creds, resp)
    \/ \E creds \in BOOLEAN, resp \in TokenResponses :
           CallGetToken(creds, resp)
    \/ SendWithHeaders
    \/ Tick

InitToken ==
    /\ items = <<>>
    /\ inventory = <<>>
    /\ locations = <<>>
    /\ InitLocals

SpecToken == InitToken /\ [][NextToken]_vars

(***************************************************************************)
(* SpecEtag: one call of getEtag.                                          *)
(***************************************************************************)
InitEtag ==
    /\ items = <<>>
    /\ inventory = <<>>
    /\ locations = <<>>
    /\ InitLocals

NextEtag ==
    \/ \E retry_count \in 0..MaxRetries : StartGetEtag(retry_count)
    \/ \E resp \in EtagResponses : GetEtagAttempt(resp)

SpecEtag == InitEtag /\ [][NextEtag]_vars

(***************************************************************************)
(* SpecStructure: one call of createStructure on any rows.                 *)
(***************************************************************************)
InitStructure ==
    /\ items = <<>>
    /\ inventory = <<>>
    /\ locations = <<>>
    /\ InitLocals

NextStructure ==
    \/ \E row \in CsvRows : CreateStructureRow(row)
    \/ ReturnStructure

SpecStructure == InitStructure /\ [][NextStructure]_vars

(***************************************************************************)
(* SpecLinks: one call of getAllChannelLinks.                              *)
(***************************************************************************)
InitLinks ==
    /\ items = <<>>
    /\ inventory = <<>>
    /\ locations = <<>>
    /\ InitLocals

NextLinks ==
    \/ \E group_by_channel \in BOOLEAN : StartGetAllChannelLinks(group_by_channel)
    \/ \E resp \in ChannelLinkPages, failed \in SUBSET {"c1", "c2"} :
           ChannelLinksPage(resp, failed)

SpecLinks == InitLinks /\ [][NextLinks]_vars

(***************************************************************************)
(* SpecClose: one call of closeOpenAllStores without a channel.            *)
(***************************************************************************)
InitClose ==
    /\ items = <<>>
    /\ inventory = <<>>
    /\ locations = <<>>
    /\ InitLocals

NextClose ==
    \/ \E type \in 0..2, locs \in StoreLists : StartCloseOpenAllStores(type, locs)
    \/ \E status \in BusyResponses, json \in BOOLEAN : CloseStore(status, json)

SpecClose == InitClose /\ [][NextClose]_vars

(***************************************************************************)
(* SpecLookup: buildInventoryLookup on any inventory.                      *)
(***************************************************************************)
InitLookup ==
    /\ items = <<>>
    /\ inventory \in SeqsUpTo(AnyRecords, MaxLookupInventory)
    /\ locations = <<>>
    /\ InitLocals

NextLookup == ApplyBuildLookup

SpecLookup == InitLookup /\ [][NextLookup]_vars

(***************************************************************************)
(* SpecLookupTwice: buildInventoryLookup applied repeatedly to one         *)
(* inventory.                                                              *)
(***************************************************************************)
NextLookupTwice == ApplyBuildLookup \/ ApplyBuildLookupAgain

SpecLookupTwice == InitLookup /\ [][NextLookupTwice]_vars

(***************************************************************************)
(* SpecExample: the demonstration of optimization_example.py on any data.  *)
(***************************************************************************)
InitExample ==
    /\ items \in ItemLists(MaxItems)
    /\ inventory \in SeqsUpTo(ExampleRecords, MaxInventory)
    /\ locations \in SeqsUpTo({StrLoc("l1"), StrLoc("l2")}, MaxLocations)
    /\ InitLocals

NextExample == RunExample

SpecExample == InitExample /\ [][NextExample]_vars

(***************************************************************************)
(* Vocabulary of the properties.                                           *)
(***************************************************************************)
\* The ids of the account's locations.
LocationIds == {LocId(locations[i]) : i \in 1..Len(locations)}

\* plu is listed at location L by some record of the inventory.
StockedAt(plu, L) ==
    \E i \in 1..Len(inventory) :
        /\ inventory[i].plu = plu
        /\ \E j \in 1..Len(inventory[i].locations) :
               inventory[i].locations[j].location = L

\* Some record of the inventory lists location L.
ListedInInventory(L) ==
    \E i \in 1..Len(inventory) : \E j \in 1..Len(inventory[i].locations) :
        inventory[i].locations[j].location = L

\* The items with a non-empty plu whose (plu, L) is not in the index of the
\* inventory, in the order of `items`.
ExpectedMissing(L) ==
    LET index == buildInventoryLookup(inventory)
    IN  SelectSeq(items, LAMBDA item :
            Truthy(item.plu) /\ <<item.plu, L>> \notin index)

InSeq(x, seq) == \E i \in 1..Len(seq) : seq[i] = x

\* The missing items reported for key L by a report (none when L is no key).
ReportedAt(report, L) ==
    IF L \in DictKeys(report) THEN DictGet(report, L).missing_items ELSE <<>>

\* The report an all-locations run makes of the inputs and the index.
ReportOfInputs ==
    ReportLoop(<<>>, locations, items, buildInventoryLookup(inventory),
               BuildNameCache(locations, <<>>))

(***************************************************************************)
(* C1: the missing-items result of getMissingInventory, in the single-     *)
(* location branch and for every location of the all-locations branch, is  *)
(* exactly the sub-sequence of `items` whose plu is non-empty and whose    *)
(* (plu, location) pair is absent from buildInventoryLookup(inventory): an *)
(* item stocked at the location is not reported, and at a location that no *)
(* inventory record lists every item with a non-empty plu is reported.     *)
(***************************************************************************)
C1_ResultOf(L, result) ==
    /\ result = ExpectedMissing(L)
    /\ \A i \in 1..Len(items) :
           Truthy(items[i].plu) /\ StockedAt(items[i].plu, L)
               => ~InSeq(items[i], result)
    /\ ~ListedInInventory(L)
           => result = SelectSeq(items, LAMBDA item : Truthy(item.plu))

C1_MissingIsFilteredItems ==
    /\ ret_single.done => C1_ResultOf(ret_single.location, ret_single.value)
    /\ pc = "export" => C1_ResultOf(location, missing_inventory)
    /\ \A k \in 1..Len(missing_per_location) :
           C1_ResultOf(missing_per_location[k].key,
                       missing_per_location[k].missing_items)
    /\ ret_all.done =>
           \A L \in LocationIds : ReportedAt(ret_all.value, L) = ExpectedMissing(L)

\* A run over two locations: at one a stocked item is left out and another
\* item is reported, the other is listed by no record and has every item.
C1_Witness ==
    /\ ret_all.done
    /\ \E L1, L2 \in DictKeys(ret_all.value) :
           /\ \E i \in 1..Len(items) :
                  Truthy(items[i].plu) /\ StockedAt(items[i].plu, L1)
           /\ ReportedAt(ret_all.value, L1) # <<>>
           /\ ~ListedInInventory(L2)
           /\ Len(ReportedAt(ret_all.value, L2)) = 2

(***************************************************************************)
(* C2 as stated: for every catalog item and every checked location, the    *)
(* item is reported as missing at that location if and only if             *)
(* (item.plu, locationId) is not in the membership index.                  *)
(***************************************************************************)
C2_AsStated ==
    /\ ret_single.done =>
           \A i \in 1..Len(items) :
               InSeq(items[i], ret_single.value)
                   <=> <<items[i].plu, ret_single.location>> \notin inventory_lookup
    /\ ret_all.done =>
           \A L \in LocationIds : \A i \in 1..Len(items) :
               InSeq(items[i], ReportedAt(ret_all.value, L))
                   <=> <<items[i].plu, L>> \notin inventory_lookup

(***************************************************************************)
(* C2 amended: for every catalog item with a non-empty plu and every       *)
(* checked location, the item is reported as missing at that location if   *)
(* and only if (item.plu, locationId) is not in the membership index.      *)
(***************************************************************************)
C2_MissingIffNotInIndex ==
    /\ ret_single.done =>
           \A i \in 1..Len(items) : Truthy(items[i].plu) =>
               (InSeq(items[i], ret_single.value)
                   <=> <<items[i].plu, ret_single.location>> \notin inventory_lookup)
    /\ ret_all.done =>
           \A L \in LocationIds : \A i \in 1..Len(items) : Truthy(items[i].plu) =>
               (InSeq(items[i], ReportedAt(ret_all.value, L))
                   <=> <<items[i].plu, L>> \notin inventory_lookup)

\* An all-locations run in which, at one location, one identified item is in
\* the index and another is not.
C2_Witness ==
    /\ ret_all.done
    /\ \E L \in LocationIds : \E i, j \in 1..Len(items) :
           /\ Truthy(items[i].plu) /\ <<items[i].plu, L>> \in inventory_lookup
           /\ Truthy(items[j].plu) /\ <<items[j].plu, L>> \notin inventory_lookup

(***************************************************************************)
(* C3 as stated: every (plu, loc) pair present in some record of the       *)
(* inventory (loc a location entry of a record whose plu is plu) is in     *)
(* buildInventoryLookup(inventory).                                        *)
(***************************************************************************)
C3_AsStated ==
    pc = "built" =>
        \A i \in 1..Len(inventory) : \A j \in 1..Len(inventory[i].locations) :
            <<inventory[i].plu, inventory[i].locations[j].location>>
                \in inventory_lookup

(***************************************************************************)
(* C3 amended: every (plu, loc) pair present in some record of the         *)
(* inventory with plu and loc both non-empty is in                         *)
(* buildInventoryLookup(inventory).                                        *)
(***************************************************************************)
C3_LookupContainsEveryPair ==
    pc = "built" =>
        \A i \in 1..Len(inventory) : \A j \in 1..Len(inventory[i].locations) :
            Truthy(inventory[i].plu) /\ Truthy(inventory[i].locations[j].location)
                => <<inventory[i].plu, inventory[i].locations[j].location>>
                       \in inventory_lookup

\* Two records, the second with two locations: three pairs in the index.
C3_Witness ==
    /\ pc = "built"
    /\ Len(inventory) = 2
    /\ Len(inventory[2].locations) = 2
    /\ Cardinality(inventory_lookup) = 3

(***************************************************************************)
(* C4: buildInventoryLookup(inventory) holds only pairs (plu, locationId)  *)
(* that occur in some record with plu and locationId both non-empty: a     *)
(* record with an empty or absent plu contributes nothing, and a location  *)
(* entry with an empty or absent id contributes nothing while the other    *)
(* entries of its record still contribute.                                 *)
(***************************************************************************)
C4_LookupHoldsOnlyRealPairs ==
    pc = "built" =>
        /\ \A pair \in inventory_lookup :
               /\ Truthy(pair[1])
               /\ Truthy(pair[2])
               /\ StockedAt(pair[1], pair[2])
        /\ \A i \in 1..Len(inventory) :
               ~Truthy(inventory[i].plu) =>
                   \A pair \in inventory_lookup :
                       pair[1] # inventory[i].plu
        /\ \A i \in 1..Len(inventory) : \A j, k \in 1..Len(inventory[i].locations) :
               /\ Truthy(inventory[i].plu)
               /\ ~Truthy(inventory[i].locations[j].location)
               /\ Truthy(inventory[i].locations[k].location)
               => /\ <<inventory[i].plu, inventory[i].locations[k].location>>
                         \in inventory_lookup
                  /\ <<inventory[i].plu, inventory[i].locations[j].location>>
                         \notin inventory_lookup

\* A record without plu that lists a location, and a record whose first
\* entry has no id and whose second has one: the index is that one pair.
C4_Witness ==
    /\ pc = "built"
    /\ Len(inventory) = 2
    /\ ~Truthy(inventory[1].plu)
    /\ Len(inventory[1].locations) = 1
    /\ Truthy(inventory[1].locations[1].location)
    /\ Truthy(inventory[2].plu)
    /\ Len(inventory[2].locations) = 2
    /\ ~Truthy(inventory[2].locations[1].location)
    /\ Truthy(inventory[2].locations[2].location)
    /\ inventory_lookup = {<<inventory[2].plu, inventory[2].locations[2].location>>}

(***************************************************************************)
(* C5: a catalog item whose plu is empty or absent never appears in any    *)
(* missing-items output, single-location result or per-location list of    *)
(* the report, whatever the index contains, the empty index included.      *)
(***************************************************************************)
AllIdentified(result) == \A n \in 1..Len(result) : Truthy(result[n].plu)

C5_NoUnidentifiedItemReported ==
    /\ AllIdentified(missing_inventory)
    /\ AllIdentified(ret_single.value)
    /\ \A k \in 1..Len(missing_per_location) :
           AllIdentified(missing_per_location[k].missing_items)
    /\ \A k \in 1..Len(ret_all.value) :
           AllIdentified(ret_all.value[k].missing_items)

\* A finished all-locations run on an empty index: the items hold one
\* without plu, and the report is not empty.
C5_Witness ==
    /\ ret_all.done
    /\ inventory_lookup = {}
    /\ \E i \in 1..Len(items) : ~Truthy(items[i].plu)
    /\ ret_all.value # <<>>

(***************************************************************************)
(* C6: the missing-items sequence of a location keeps the relative order   *)
(* of `items`: when a comes before b in the output, a comes before b in    *)
(* `items`.                                                                *)
(***************************************************************************)
OrderedAs(result, seq) ==
    \A a, b \in 1..Len(result) :
        a < b => \E i, j \in 1..Len(seq) :
                     i < j /\ seq[i] = result[a] /\ seq[j] = result[b]

C6_OrderOfItemsKept ==
    /\ OrderedAs(missing_inventory, items)
    /\ OrderedAs(ret_single.value, items)
    /\ \A k \in 1..Len(missing_per_location) :
           OrderedAs(missing_per_location[k].missing_items, items)
    /\ \A k \in 1..Len(ret_all.value) :
           OrderedAs(ret_all.value[k].missing_items, items)

\* A single-location run that returned two items.
C6_Witness ==
    /\ ret_single.done
    /\ Len(ret_single.value) = 2
    /\ ret_single.value[1] # ret_single.value[2]

(***************************************************************************)
(* C7: in the all-locations report every entry's count is the length of    *)
(* its missing_items list, which is the number of items the single-        *)
(* location filter yields for that location on the same index; a location  *)
(* with zero missing items is no key of the report (no count is 0), and    *)
(* every key is the id of a location of `locations`.                       *)
(***************************************************************************)
C7_EntryOk(entry) ==
    /\ entry.count = Len(entry.missing_items)
    /\ entry.count = Len(MissingForSingle(items, entry.key, inventory_lookup, <<>>))
    /\ entry.count > 0
    /\ entry.location_id = entry.key
    /\ entry.key \in LocationIds

C7_ReportCountsConsistent ==
    /\ \A k \in 1..Len(missing_per_location) : C7_EntryOk(missing_per_location[k])
    /\ ret_all.done =>
           /\ \A k \in 1..Len(ret_all.value) : C7_EntryOk(ret_all.value[k])
           /\ \A L \in LocationIds :
                  Len(MissingForSingle(items, L, inventory_lookup, <<>>)) = 0
                      => L \notin DictKeys(ret_all.value)

\* A report with a key, of an account with another location where the one
\* identified item of the catalog is stocked.
C7_Witness ==
    /\ ret_all.done
    /\ \E i \in 1..Len(items) : Truthy(items[i].plu)
    /\ \E L1, L2 \in LocationIds :
           /\ L1 \in DictKeys(ret_all.value)
           /\ L2 \notin DictKeys(ret_all.value)

(***************************************************************************)
(* C8: findMissing_OLD(inventory, items, locations) equals                 *)
(* findMissing_NEW(inventory, items, locations) for every inventory, item  *)
(* list and location list: the same location keys and the same missing-    *)
(* item lists in the same order.                                           *)
(***************************************************************************)
C8_ResultsMatch ==
    pc = "compared" => DictEqual(missing_old, missing_new)

(***************************************************************************)
(* C9 as stated: the single-location call for L returns the missing_items  *)
(* stored under L in the all-locations report when L is in `locations` and *)
(* has a missing item, and returns the empty sequence exactly when L is    *)
(* absent from that report.                                                *)
(***************************************************************************)
C9_AsStated ==
    ret_single.done =>
        LET L == ret_single.location
            report == ReportOfInputs
        IN  /\ (L \in LocationIds /\ L \in DictKeys(report))
                   => ret_single.value = DictGet(report, L).missing_items
            /\ (ret_single.value = <<>>) <=> (L \notin DictKeys(report))

(***************************************************************************)
(* C9 amended: the single-location call for L returns the missing_items    *)
(* stored under L in the all-locations report when L is in `locations` and *)
(* has a missing item, and, when L is in `locations`, returns the empty    *)
(* sequence exactly when L is absent from that report.                     *)
(***************************************************************************)
C9_ModesAgree ==
    /\ ret_single.done =>
           LET L == ret_single.location
               report == ReportOfInputs
           IN  /\ L \in DictKeys(report)
                      => ret_single.value = DictGet(report, L).missing_items
               /\ L \in LocationIds
                      => ((ret_single.value = <<>>) <=> (L \notin DictKeys(report)))
    /\ ret_all.done =>
           \A L \in LocationIds :
               LET single == MissingForSingle(items, L, inventory_lookup, <<>>)
               IN  /\ L \in DictKeys(ret_all.value)
                          => DictGet(ret_all.value, L).missing_items = single
                   /\ (single = <<>>) <=> (L \notin DictKeys(ret_all.value))

\* A single-location call for a location of the account that returned some
\* of the items, not all.
C9_Witness ==
    /\ ret_single.done
    /\ ret_single.location \in LocationIds
    /\ ret_single.value # <<>>
    /\ Len(ret_single.value) < Len(items)

(***************************************************************************)
(* C10: in one call of getMissingInventory the index is built exactly      *)
(* once, before the first membership check, and every (item, location)     *)
(* check of the call uses that index, unchanged.                           *)
(***************************************************************************)
C10_Step ==
    /\ builds' \in {builds, builds + 1}
    /\ builds' # builds =>
           /\ builds = 0
           /\ checks = 0
           /\ inventory_lookup' = buildInventoryLookup(inventory)
    /\ checks' # checks =>
           /\ builds = 1
           /\ inventory_lookup = buildInventoryLookup(inventory)
    /\ pc \in {"prepare", "loop", "single", "export"} =>
           /\ builds' = builds
           /\ inventory_lookup' = inventory_lookup
    /\ pc' = "done" => builds' = 1

C10_IndexBuiltOnceAndReused == [][C10_Step]_vars

\* A finished all-locations run of four checks on one build.
C10_Witness ==
    /\ pc = "done"
    /\ ret_all.done
    /\ checks = 4
    /\ builds = 1
    /\ inventory_lookup # {}

NameLookups ==
    {ReqAllLocations, ReqAccountName} \cup
    {ReqLocationName(LocId(loc)) : loc \in AccountLocations} \cup
    {ReqLocationName(L) : L \in LocIds}

C12_Step ==
    /\ inputs' = inputs
    /\ ret_all.done /\ ret_all'.done => ret_all' = ret_all
    /\ ret_single.done /\ ret_single'.done => ret_single' = ret_single

C12_InputsNeverMutated == [][C12_Step]_vars

\* A repeated all-locations call, about to return, whose predecessor
\* returned a report with stocked and missing items involved.
C12_Witness ==
    /\ pc = "loop" /\ li > Len(locations)
    /\ ret_all.done /\ ret_all.value # <<>>
    /\ inventory_lookup # {}
    /\ missing_per_location = ret_all.value

(***************************************************************************)
(* C13.  Malformed records never make the engine raise: whatever plu,      *)
(* locations and location ids are absent, empty or null, the index build   *)
(* and the scan complete normally.                                         *)
(***************************************************************************)
C13_NeverRaises == pc # "raised"

(***************************************************************************)
(* C14.  The comparison is never run on partially fetched inputs: when a   *)
(* page request of the inventory or item fetch failed or was answered      *)
(* without an item list, getMissingInventory is not called.                *)
(***************************************************************************)
C14_NoComparisonAfterBadPage ==
    fetch_pc = "compare" =>
        \A i \in 1..Len(responses) :
            responses[i] \in {"items", "short", "empty"}

(***************************************************************************)
(* C15.  After an all-locations run the summary shows, as "Locations with  *)
(* Missing Items", the number of locations (by id) of `locations` with at  *)
(* least one missing item and, as "Total Missing Items", the sum over      *)
(* those locations of their numbers of missing items.                      *)
(***************************************************************************)
LocationsWithMissing == {L \in LocationIds : ExpectedMissing(L) # <<>>}

RECURSIVE SumOfMissing(_)
SumOfMissing(S) ==
    IF S = {} THEN 0
    ELSE LET L == CHOOSE x \in S : TRUE
         IN  Len(ExpectedMissing(L)) + SumOfMissing(S \ {L})

C15_SummaryCounts ==
    ret_all.done =>
        /\ total_locations(ret_all.value) = Cardinality(LocationsWithMissing)
        /\ total_missing(ret_all.value) = SumOfMissing(LocationsWithMissing)

\* Two locations were checked, one of them has missing items: two in all.
C15_Witness ==
    /\ ret_all.done
    /\ Len(locations) = 2
    /\ total_locations(ret_all.value) = 1
    /\ total_missing(ret_all.value) = 2

(***************************************************************************)
(* C16.  The index is a union over the records: for every split of the     *)
(* inventory into I1 ++ I2 the index of the whole is the union of the      *)
(* indexes of I1 and I2, and the index is the same for every order of the  *)
(* records.                                                                *)
(***************************************************************************)
Orderings(n) ==
    {f \in [1..n -> 1..n] : \A i, j \in 1..n : f[i] = f[j] => i = j}

C16_IndexIsUnionOfRecords ==
    pc = "built" =>
        LET n == Len(inventory) IN
        /\ \A k \in 0..n :
               inventory_lookup =
                   buildInventoryLookup(SubSeq(inventory, 1, k)) \cup
                   buildInventoryLookup(SubSeq(inventory, k + 1, n))
        /\ \A f \in Orderings(n) :
               inventory_lookup =
                   buildInventoryLookup([i \in 1..n |-> inventory[f[i]]])

\* Two records of the same plu at different locations: both pairs are in.
C16_Witness ==
    /\ pc = "built"
    /\ Len(inventory) = 2
    /\ inventory[1] = [plu |-> "p1", locations |-> <<Entry("l1")>>]
    /\ inventory[2] = [plu |-> "p1", locations |-> <<Entry("l2")>>]
    /\ inventory_lookup = {<<"p1", "l1">>, <<"p1", "l2">>}

(***************************************************************************)
(* C17.  As stated: whenever a record of the inventory has an empty        *)
(* locations list, a catalog item with that record's plu is reported       *)
(* missing at every checked location.                                      *)
(***************************************************************************)
\* item is in the result of the finished call for location L.
ReportedMissingAt(item, L) ==
    /\ ret_all.done => InSeq(item, ReportedAt(ret_all.value, L))
    /\ ret_single.done => InSeq(item, ret_single.value)

\* The locations the finished call has checked.
CheckedLocations ==
    IF ret_all.done THEN LocationIds
    ELSE IF ret_single.done THEN {ret_single.location}
    ELSE {}

C17_AsStated ==
    \A i \in 1..Len(inventory) : \A j \in 1..Len(items) :
        inventory[i].locations = <<>> /\ items[j].plu = inventory[i].plu =>
            \A L \in CheckedLocations : ReportedMissingAt(items[j], L)

\* The inventory without its i-th record.
WithoutRecord(i) ==
    SubSeq(inventory, 1, i - 1) \o SubSeq(inventory, i + 1, Len(inventory))

\* C17, amended: a record with an empty locations list contributes no pair
\* to the index (the index is the one of the inventory without it), and a
\* catalog item with that record's plu, the plu being non-empty, is
\* reported missing at every checked location at which no other record
\* lists that plu.
C17_EmptyRecordAddsNothing ==
    \A i \in 1..Len(inventory) :
        inventory[i].locations = <<>> =>
            /\ builds = 1 =>
                   inventory_lookup = buildInventoryLookup(WithoutRecord(i))
            /\ \A j \in 1..Len(items) :
                   items[j].plu = inventory[i].plu /\ Truthy(items[j].plu) =>
                       \A L \in CheckedLocations :
                           ~StockedAt(items[j].plu, L) =>
                               ReportedMissingAt(items[j], L)

\* A record of p1 without locations beside a record of p1 at l1: the item
\* p1 is reported at l2 and not at l1.
C17_Witness ==
    /\ ret_all.done
    /\ inventory = <<[plu |-> "p1", locations |-> <<>>],
                     [plu |-> "p1", locations |-> <<Entry("l1")>>]>>
    /\ Len(items) = 1 /\ items[1].plu = "p1"
    /\ LocationIds = {"l1", "l2"}
    /\ DictKeys(ret_all.value) = {"l2"}

(***************************************************************************)
(* C18.  The keys of the all-locations report appear in the order in which *)
(* their locations first occur in `locations`, the locations without a     *)
(* missing item left out; they are not sorted.                             *)
(***************************************************************************)
\* The ids of locs in the order of their first occurrence.
RECURSIVE FirstOccurrences(_, _)
FirstOccurrences(locs, ids) ==
    IF locs = <<>> THEN ids
    ELSE FirstOccurrences(Tail(locs),
             IF InSeq(LocId(Head(locs)), ids) THEN ids
             ELSE Append(ids, LocId(Head(locs))))

C18_KeysInSuppliedOrder ==
    ret_all.done =>
        [i \in 1..Len(ret_all.value) |-> ret_all.value[i].key] =
            SelectSeq(FirstOccurrences(locations, <<>>),
                      LAMBDA L : ExpectedMissing(L) # <<>>)

\* l2 was supplied before l1 and both have a missing item.
C18_Witness ==
    /\ ret_all.done
    /\ Len(ret_all.value) = 2
    /\ ret_all.value[1].key = "l2"
    /\ ret_all.value[2].key = "l1"

(***************************************************************************)
(* C19.  Catalog items sharing a plu are classified one by one: at every   *)
(* location of the report either all of them are reported or none is, each *)
(* reported occurrence is an element of its own, and the location's count  *)
(* is the number of reported occurrences, not of distinct plus.            *)
(***************************************************************************)
\* The positions of `items` whose item is in the list `missing`.
ReportedPositions(missing) ==
    {j \in 1..Len(items) : InSeq(items[j], missing)}

C19_SharedPluCountedPerItem ==
    ret_all.done =>
        \A L \in LocationIds :
            LET missing == ReportedAt(ret_all.value, L) IN
            /\ \A i, j \in 1..Len(items) :
                   items[i].plu = items[j].plu =>
                       (InSeq(items[i], missing) <=> InSeq(items[j], missing))
            /\ \A m, n \in 1..Len(missing) : missing[m] = missing[n] => m = n
            /\ Len(missing) = Cardinality(ReportedPositions(missing))
            /\ L \in DictKeys(ret_all.value) =>
                   DictGet(ret_all.value, L).count =
                       Cardinality(ReportedPositions(missing))

\* Two items share the plu p1 and both are reported at l1: count 2.
C19_Witness ==
    /\ ret_all.done
    /\ Len(items) = 2 /\ items[1].plu = "p1" /\ items[2].plu = "p1"
    /\ "l1" \in DictKeys(ret_all.value)
    /\ DictGet(ret_all.value, "l1").count = 2
    /\ DictGet(ret_all.value, "l1").missing_items = items

(***************************************************************************)
(* C20.  Building the index again from the same inventory gives a set with *)
(* the same members: the earlier call has left nothing behind that changes *)
(* the result of the later one.                                            *)
(***************************************************************************)
C20_Step ==
    builds >= 1 /\ builds' = builds + 1 =>
        inventory_lookup' = inventory_lookup

ExportRows(entry) ==
    <<CsvHeader>> \o
    [i \in 1..Len(entry.missing_items) |->
        <<entry.location_name, entry.missing_items[i].plu,
          entry.missing_items[i].name>>]

C21_EveryLocationHasItsExport ==
    ret_all.done =>
        \A i \in 1..Len(ret_all.value) :
            \E f \in 1..Len(files) :
                files[f].rows = ExportRows(ret_all.value[i])

(***************************************************************************)
(* C22.  As stated: getItems issues no request after a page that returned  *)
(* fewer items than the page size.                                         *)
(***************************************************************************)
\* The answers getItems has received: those after getInventory's pages and
\* the answer that ended getInventory.
ItemResponses ==
    SubSeq(responses, Len(inventory_items) + 2, Len(responses))

C22_AsStated ==
    fetch_pc \in {"items", "compare"} =>
        \A i \in 1..(Len(ItemResponses) - 1) : ItemResponses[i] # "short"

\* C22, amended: getItems requests the pages 1, 2, 3, ... and stops at the
\* first page that returns no item, issuing no request after it; a page
\* with fewer items than the page size is followed by a further request.
\* Its result is the concatenation, in page order, of the pages fetched.
C22_StopsAtFirstEmptyPage ==
    fetch_pc \in {"items", "compare"} =>
        LET rs == ItemResponses
            n == Len(items_list)
        IN  /\ items_list = [i \in 1..n |-> i]
            /\ \A i \in 1..n : rs[i] \in {"items", "short"}
            /\ fetch_pc = "items" => Len(rs) = n /\ page = n + 1
            /\ fetch_pc = "compare" => Len(rs) = n + 1 /\ rs[n + 1] = "empty"

\* A full page, a short page and then the empty page that ends the loop.
C22_Witness ==
    /\ fetch_pc = "compare"
    /\ ItemResponses = <<"items", "short", "empty">>
    /\ items_list = <<1, 2>>

(***************************************************************************)
(* C23.  A location given as the plain id L and a location given as a      *)
(* record with id L are interchangeable: replacing either representation   *)
(* by the other in `locations` leaves the keys, the missing-item lists and *)
(* the counts of the all-locations report unchanged.                       *)
(***************************************************************************)
\* The id a location stands for, whatever its representation.
IdOf(loc) == IF loc.kind = "dict" THEN loc.id ELSE loc.str

AsPlainIds(locs) == [i \in 1..Len(locs) |-> StrLoc(IdOf(locs[i]))]
AsRecords(locs) == [i \in 1..Len(locs) |-> DictLoc(IdOf(locs[i]), "Any")]

\* A report without its location names.
IdsListsCounts(report) ==
    [i \in 1..Len(report) |->
        [key |-> report[i].key,
         location_id |-> report[i].location_id,
         missing_items |-> report[i].missing_items,
         count |-> report[i].count]]

ReportFor(locs) ==
    ReportLoop(<<>>, locs, items, buildInventoryLookup(inventory),
               BuildNameCache(locs, <<>>))

C23_RepresentationsInterchangeable ==
    ret_all.done =>
        /\ IdsListsCounts(ret_all.value) =
               IdsListsCounts(ReportFor(AsPlainIds(locations)))
        /\ IdsListsCounts(ret_all.value) =
               IdsListsCounts(ReportFor(AsRecords(locations)))

\* A record for l1 and a plain id for l2, both with a missing item.
C23_Witness ==
    /\ ret_all.done
    /\ locations = <<DictLoc("l1", "Uno"), StrLoc("l2")>>
    /\ DictKeys(ret_all.value) = {"l1", "l2"}

(***************************************************************************)
(* C24.  As stated: getToken sends a token request if and only if no token *)
(* is cached or the time is not before the cached expires_at; otherwise it *)
(* returns the cached token and leaves the cache unchanged; after a        *)
(* successful request the cache holds the new token with expires_at =      *)
(* request time + expires_in - 300, expires_in defaulting to 3600.         *)
(***************************************************************************)
\* The last call returned the cached token without a request.
ServedFromCache ==
    /\ ~got.posted
    /\ got.result = "returned"
    /\ got.token = got.before.token
    /\ token_cache = got.before

\* The request of the last call was answered with a token and a usable
\* expires_in, and the cache holds that token until its expiry less the
\* margin.
RefreshedFrom(resp) ==
    resp.kind \in {"token", "token_without_expires_in"} =>
        /\ got.result = "returned"
        /\ token_cache.token = got.token
        /\ got.token # got.before.token
        /\ token_cache.expires_at =
               got.at + (IF resp.kind = "token" THEN resp.expires_in ELSE 3600)
                      - 300

C24_AsStated ==
    got.result # "none" =>
        /\ got.posted <=> ~CacheValid(got.before, got.at)
        /\ CacheValid(got.before, got.at) => ServedFromCache
        /\ got.posted => RefreshedFrom(got.response)

\* C24, amended: getToken sends a token request if and only if no token is
\* cached or the time is not before the cached expires_at, and CLIENT_ID
\* and CLIENT_SECRET are set; without them it raises in that case, sending
\* nothing and leaving the cache unchanged.  The rest is as stated.
C24_LazyRefreshWithCredentials ==
    got.result # "none" =>
        /\ got.posted <=> (~CacheValid(got.before, got.at) /\ got.creds)
        /\ CacheValid(got.before, got.at) => ServedFromCache
        /\ ~CacheValid(got.before, got.at) /\ ~got.creds =>
               got.result = "raised" /\ token_cache = got.before
        /\ got.posted => RefreshedFrom(got.response)

\* A token obtained at time 0 without expires_in was served from the cache
\* up to its expiry and replaced by a request at 3300 seconds.
C24_Witness ==
    /\ got.posted /\ got.result = "returned"
    /\ got.before = [token |-> "t1", expires_at |-> 3300]
    /\ got.at = 3300
    /\ token_cache.token = "t2"

(***************************************************************************)
(* C25.  The module-level `headers` refreshes by itself: every request     *)
(* sent with it, at any time after the import, carries a token that the    *)
(* cache holds as unexpired at that time.                                  *)
(***************************************************************************)
C25_HeadersCarryUnexpiredToken ==
    sent.token # None =>
        /\ sent.token = sent.cache.token
        /\ CacheValid(sent.cache, sent.at)

(***************************************************************************)
(* C30.  The token cache changes atomically: in every reachable state its  *)
(* token and expires_at are both None or both set, and a call of getToken  *)
(* that raises leaves both as they were before the call.                   *)
(***************************************************************************)
C30_CacheUpdatedAtomically ==
    /\ token_cache.token = None <=> token_cache.expires_at = NoTime
    /\ got.result = "raised" => token_cache = got.before

(***************************************************************************)
(* C26.  getEtag makes at most retry_count GET attempts; it returns the    *)
(* etag of the first attempt that succeeds and holds an etag key; after an *)
(* attempt with an HTTP error status or without an etag it waits and tries *)
(* again while attempts remain, and raises after the retry_count-th such   *)
(* attempt; it never returns without an etag, and it ends: the attempts    *)
(* left decrease with every attempt and none is made at zero.              *)
(***************************************************************************)
Unsuccessful(resp) ==
    resp.status = "http_error" \/ (resp.status = "ok" /\ resp.keys = {})

C26_RetriesUntilEtag ==
    LET c == etag_call
        n == Len(c.responses)
    IN  /\ n <= c.retry_count
        /\ \A i \in 1..(n - 1) : Unsuccessful(c.responses[i])
        /\ c.pc = "running" =>
               /\ n < c.retry_count
               /\ c.attempt = n /\ c.sleeps = n
               /\ \A i \in 1..n : Unsuccessful(c.responses[i])
        /\ c.pc = "returned" =>
               /\ n >= 1
               /\ c.responses[n].status = "ok" /\ c.responses[n].keys # {}
               /\ c.result \in {EtagValue(k) : k \in c.responses[n].keys}
               /\ "_etag" \in c.responses[n].keys => c.result = EtagValue("_etag")
               /\ c.sleeps = n - 1
        /\ n = c.retry_count /\ n >= 1 /\ Unsuccessful(c.responses[n]) =>
               c.pc = "raised"
        /\ c.pc \in {"idle", "raised"} => c.result = None

\* Two attempts without an etag, then the third returned it.
C26_Witness ==
    /\ etag_call.pc = "returned"
    /\ etag_call.retry_count = 3
    /\ Len(etag_call.responses) = 3
    /\ etag_call.responses[1].status = "http_error"
    /\ etag_call.responses[2].status = "ok"
    /\ etag_call.sleeps = 2

(***************************************************************************)
(* C27.  createStructure skips every row in which Category 1, Category 2   *)
(* or Plu is missing or empty; in the mapping it returns, plu p is listed  *)
(* under [category1][category2] iff a kept row has that triple; every PLU  *)
(* list is free of duplicates and ordered by first occurrence in `rows`;   *)
(* no category and no subcategory is empty.                                *)
(***************************************************************************)
KeptRow(row) ==
    /\ row.category1 \notin {None, ""}
    /\ row.category2 \notin {None, ""}
    /\ row.plu \notin {None, ""}

\* The position in `rows` of the first kept row with the triple (0: none).
FirstRowOf(rows, c1, c2, p) ==
    LET at == {i \in 1..Len(rows) :
                  KeptRow(rows[i]) /\ rows[i].category1 = c1
                                   /\ rows[i].category2 = c2 /\ rows[i].plu = p}
    IN  IF at = {} THEN 0 ELSE CHOOSE i \in at : \A j \in at : i <= j

ListedUnder(structure, c1, c2) ==
    IF c1 \in DictKeys(structure) /\ c2 \in DictKeys(DictGet(structure, c1).value)
    THEN DictGet(DictGet(structure, c1).value, c2).value
    ELSE <<>>

C27_StructureOfKeptRows ==
    structure_call.pc = "returned" =>
        LET rows == structure_call.rows
            structure == structure_call.categoryStructure
        IN  /\ \A c1 \in {"", "A", "B"} \cup DictKeys(structure),
                  c2 \in {None, "X", "Y"} \cup
                            UNION {DictKeys(structure[i].value) :
                                      i \in 1..Len(structure)} :
                  LET plus == ListedUnder(structure, c1, c2)
                  IN  /\ \A p \in {"", "p1", "p2"} \cup
                                    {plus[i] : i \in 1..Len(plus)} :
                             (\E i \in 1..Len(plus) : plus[i] = p)
                                 <=> FirstRowOf(rows, c1, c2, p) > 0
                      /\ \A i, j \in 1..Len(plus) :
                             i < j => /\ plus[i] # plus[j]
                                      /\ FirstRowOf(rows, c1, c2, plus[i])
                                             < FirstRowOf(rows, c1, c2, plus[j])
            /\ \A i \in 1..Len(structure) :
                  /\ Len(structure[i].value) > 0
                  /\ \A j \in 1..Len(structure[i].value) :
                         Len(structure[i].value[j].value) > 0
            /\ \A i, j \in 1..Len(structure) :
                  structure[i].key = structure[j].key => i = j

\* Three kept rows of A/X with the PLUs p2, p1, p2: the list is <<p2, p1>>.
C27_Witness ==
    /\ structure_call.pc = "returned"
    /\ Len(structure_call.rows) = 3
    /\ structure_call.rows[1] = [category1 |-> "A", category2 |-> "X", plu |-> "p2"]
    /\ structure_call.rows[2] = [category1 |-> "A", category2 |-> "X", plu |-> "p1"]
    /\ structure_call.rows[3] = [category1 |-> "A", category2 |-> "X", plu |-> "p2"]
    /\ ListedUnder(structure_call.categoryStructure, "A", "X") = <<"p2", "p1">>

\* The grouped result: one entry per distinct channel of the fetched links,
\* holding exactly the ids of the links of that channel, each id once.
GroupedByChannel(result, fetched) ==
    /\ {result[i].channelId : i \in 1..Len(result)}
           = {fetched[i].channel : i \in 1..Len(fetched)}
    /\ \A i, j \in 1..Len(result) : result[i].channelId = result[j].channelId => i = j
    /\ \A i \in 1..Len(result) :
           /\ {result[i].channelLinksIds[k] : k \in 1..Len(result[i].channelLinksIds)}
                  = {fetched[k]._id : k \in {n \in 1..Len(fetched) :
                                                 fetched[n].channel = result[i].channelId}}
           /\ \A k, n \in 1..Len(result[i].channelLinksIds) :
                  result[i].channelLinksIds[k] = result[i].channelLinksIds[n] => k = n

\* The flat result: one entry {name, id, channel} per fetched link.
FlatList(result, fetched) ==
    /\ Len(result) = Len(fetched)
    /\ \A i \in 1..Len(fetched) :
           result[i] = [name |-> fetched[i].name, id |-> fetched[i]._id,
                        channel |-> fetched[i].channel]

(***************************************************************************)
(* C28.  getAllChannelLinks with group_by_channel=False returns one entry  *)
(* {name, id, channel} for every channel link fetched over all pages; with *)
(* group_by_channel=True it returns one entry per distinct channel whose   *)
(* channelLinksIds are exactly the ids of the fetched links of that        *)
(* channel, every fetched id in exactly one group.                         *)
(***************************************************************************)
C28_FlatOrGrouped ==
    links_call.pc = "returned" =>
        IF links_call.group_by_channel
        THEN GroupedByChannel(links_call.result, links_call.fetched)
        ELSE FlatList(links_call.result, links_call.fetched)

\* The grouped half on its own.
GroupedCallGroups ==
    links_call.pc = "returned" /\ links_call.group_by_channel =>
        GroupedByChannel(links_call.result, links_call.fetched)

(***************************************************************************)
(* C29.  closeOpenAllStores without a channel sends the busy-mode requests *)
(* to the account's locations in enumeration order and stops at the first  *)
(* that succeeds: no location after a successful one receives a request,   *)
(* it returns True iff a closeStore call succeeded, and it returns False   *)
(* only when every location has been tried and has failed (or there is     *)
(* none).                                                                  *)
(***************************************************************************)
Succeeded(post) == post.json /\ post.status = 200

C29_StopsAtFirstSuccess ==
    LET c == close_call
        n == Len(c.posts)
    IN  /\ n <= Len(c.locations)
        /\ \A i \in 1..n : c.posts[i].locationId = c.locations[i]
        /\ \A i \in 1..(n - 1) : ~Succeeded(c.posts[i])
        /\ c.pc = "returned" =>
               /\ c.result <=> \E i \in 1..n : Succeeded(c.posts[i])
               /\ ~c.result => /\ n = Len(c.locations)
                                /\ \A i \in 1..n : ~Succeeded(c.posts[i])

\* Three stores: the first request failed, the second succeeded, the third
\* store received none and the call returned True.
C29_Witness ==
    /\ close_call.pc = "returned"
    /\ close_call.result
    /\ Len(close_call.locations) = 3
    /\ Len(close_call.posts) = 2
    /\ close_call.posts[1].status = 500
    /\ close_call.posts[2].status = 200

====
